---- MODULE Spec2Model ----
(***************************************************************************)
(* Admin back-office API: the Admin account service (create / update /     *)
(* updateProfile / updatePassword / delete), the error boundary, and the   *)
(* RBAC tables (Role, Permission, RoleHasPermission, ModelHasRole) with    *)
(* the permission-matrix listing.                                          *)
(*                                                                         *)
(* The Admin table is a set of rows.  A handler whose awaits matter for    *)
(* the properties below (create: lookup, then write; getPermissions: three *)
(* reads) is split at its awaits and served by one of the request slots in *)
(* Procs; every other handler is one step.                                 *)
(***************************************************************************)
EXTENDS Integers, FiniteSets, Sequences, TLC

\* ------------------------------------------------------------------ bounds
\* Admin ids ever handed out (ids are never reused: cuid()).
MaxAdmins == 3

\* Request slots that can be in flight at once.
Procs == {1, 2}
\* Browser sessions (connect.sid cookies).
Sessions == {1, 2}
AdminIds == 1..MaxAdmins

\* ------------------------------------------------------------------ values
\* Email addresses: two spellings of one address and a second address.
Emails == {"a@x.io", "A@x.io", "b@x.io"}
Names == {"Ann", "Bob"}
Passwords == {"pw1", "pw2", "pw3"}
\* The salts bcrypt can draw.
Salts == {1, 2}
NoId == 0
NoEmail == ""
NoName == ""

\* String.prototype.toLowerCase on the email values above.
ToLowerCase(e) == IF e = "A@x.io" THEN "a@x.io" ELSE e

\* ------------------------------------------------------------------ state
VARIABLES
  admins,   \* the Admin table: a set of rows
  nextId,   \* the next id cuid() hands out
  pc,       \* pc[p]: where request slot p stands
  pend,     \* pend[p]: the body of the create request slot p is serving
  res,      \* the last response sent: who, which operation, its argument, the answer
  prevPassword,  \* history: prevPassword[id] is the password id had before its current one
  roles,               \* the Role table
  nextRoleId,          \* the next Role id cuid() hands out
  permissions,         \* the Permission table
  roleHasPermissions,  \* the RoleHasPermission table
  modelHasRoles,       \* the ModelHasRole table
  gp,                  \* gp[p]: what the listing served by slot p has read so far
  session              \* session[s]: the id of the admin session s is signed in as, or NoId

adminVars == <<admins, nextId, pend, prevPassword>>
rbacVars == <<roles, nextRoleId, permissions, roleHasPermissions, modelHasRoles, gp>>
vars == <<admins, nextId, pc, pend, res, prevPassword,
          roles, nextRoleId, permissions, roleHasPermissions, modelHasRoles, gp, session>>

NoData == [email |-> NoEmail, name |-> "", password |-> "", isSystem |-> 0]
NoRes == [op |-> "none", arg |-> <<>>, status |-> 0, message |-> "", data |-> <<>>]

\* ------------------------------------------------------------------ errors
\* new HttpException(status, message)
HttpException(status, message) == [status |-> status, message |-> message]
\* new Error(message): carries no status
PlainError(message) == [status |-> 0, message |-> message]
\* An error the Prisma client throws (unique constraint, record not found,
\* invalid enum value): carries no status either.
PrismaError(message) == [status |-> 0, message |-> message]

\* ErrorMiddleware: status = error.status || 500, message = error.message || ...
ErrorMiddleware(error) ==
  [status  |-> IF error.status # 0 THEN error.status ELSE 500,
   message |-> IF error.message # "" THEN error.message ELSE "Something went wrong"]

\* res.status(s).json({message})
Json(status, message) == [status |-> status, message |-> message]

\* The exchange as the client sees it: the request (operation, its
\* arguments) and the answer; data is the payload of a listing, if any.
Respond(op, arg, answer) ==
  [op |-> op, arg |-> arg, status |-> answer.status,
   message |-> answer.message, data |-> <<>>]

\* ------------------------------------------------------------------ storage
\* The email column is @unique on MySQL, whose default collation compares
\* strings without regard to case.
SameEmail(e1, e2) == ToLowerCase(e1) = ToLowerCase(e2)

\* prisma.admin.findUnique({where: {email}})
FindUniqueByEmail(email) == {a \in admins : SameEmail(a.email, email)}
\* prisma.admin.findUnique({where: {id}})
FindUniqueById(id) == {a \in admins : a.id = id}

\* bcrypt hash(password, 10): the salt is drawn at random
Hash(password, salt) == [pw |-> password, salt |-> salt]
\* bcrypt compare(password, hash)
Compare(password, hash) == hash.pw = password

\* The unique index on Admin.email rejects a write that would give a second
\* row the same email.
UniqueViolation(id, email) == \E a \in admins : a.id # id /\ SameEmail(a.email, email)

\* prisma.admin.update({where: {id}, data}): the rows after the write.
\* A field the data leaves out (undefined) keeps its value.
PrismaUpdate(id, data) ==
  {IF a.id = id
     THEN [a EXCEPT !.email = IF data.email # NoEmail THEN data.email ELSE @,
                    !.name = IF data.name # NoName THEN data.name ELSE @]
     ELSE a : a \in admins}

\* deleteMany without the isSystem: 0 condition.
DeleteManyAnyRow(userIds) == {a \in admins : a.id \in userIds}

\* prisma.admin.deleteMany({where: {id: {in: userIds}, isSystem: 0}}): the rows deleted.
DeleteMany(userIds) == {a \in admins : a.id \in userIds /\ a.isSystem = 0}

\* ------------------------------------------------------------------ RBAC tables
\* enum UserType
UserType == {"admin", "user"}
\* Role ids ever handed out.
MaxRoles == 2
RoleIds == 1..MaxRoles
RoleNames == {"root", "editor"}
\* Subjects a role can be bound to.
ModelIds == {1}

\* The seeded permissions, one per subject type, and the seeded system role.
SeedPermissions == {[id |-> 1, name |-> "users.read", type |-> "admin"],
                    [id |-> 2, name |-> "profile.read", type |-> "user"]}
SeedRole == [id |-> 1, name |-> "root", type |-> "admin", isSystem |-> 1]
PermissionIds == {q.id : q \in SeedPermissions}

NoGp == [type |-> "", permissions |-> {}, roleHasPermissions |-> {}]

InitRbac ==
  /\ roles = {SeedRole}
  /\ nextRoleId = 2
  /\ permissions = SeedPermissions
  /\ roleHasPermissions = {[roleId |-> 1, permissionId |-> 1]}
  /\ modelHasRoles = {}
  /\ gp = [p \in Procs |-> NoGp]

\* ------------------------------------------------------------------ Init
\* The seeded system administrator, hashed password and all.
SeedAdmin == [id |-> 1, email |-> "a@x.io", name |-> "Ann",
              password |-> Hash("pw1", 1), isSystem |-> 1]

Init ==
  /\ admins = {SeedAdmin}
  /\ nextId = 2
  /\ pc = [p \in Procs |-> "idle"]
  /\ pend = [p \in Procs |-> NoData]
  /\ res = NoRes
  /\ prevPassword = [id \in AdminIds |-> ""]
  /\ session = [s \in Sessions |-> NoId]
  /\ InitRbac

\* ------------------------------------------------------------------ AdminService.create
\* create without its lookup: every request goes on to the write.
CreateLookupNoCheck(p, data) ==
  /\ pc[p] = "idle"
  /\ nextId + Cardinality({q \in Procs : pc[q] = "create_write"}) <= MaxAdmins
  /\ pc' = [pc EXCEPT ![p] = "create_write"]
  /\ pend' = [pend EXCEPT ![p] = data]
  /\ UNCHANGED <<admins, nextId, res, prevPassword, rbacVars, session>>

\* POST /admin/users, up to the await of the uniqueness lookup:
\* findUnique({where: {email}}); a row found is answered 409.
CreateLookup(p, data) ==
  /\ pc[p] = "idle"
  /\ nextId + Cardinality({q \in Procs : pc[q] = "create_write"}) <= MaxAdmins
  /\ IF FindUniqueByEmail(data.email) # {}
       THEN /\ res' = Respond("create", [email |-> data.email],
                       ErrorMiddleware(HttpException(409, "This email already exists")))
            /\ UNCHANGED <<admins, nextId, pc, pend, prevPassword, rbacVars, session>>
       ELSE /\ pc' = [pc EXCEPT ![p] = "create_write"]
            /\ pend' = [pend EXCEPT ![p] = data]
            /\ UNCHANGED <<admins, nextId, res, prevPassword, rbacVars, session>>

\* The rest of create: hash the password, prisma.admin.create, answer 201.
\* The write is refused by the unique index when another request has taken
\* the email since the lookup; that error has no status.
CreateWrite(p, salt) ==
  /\ pc[p] = "create_write"
  /\ pc' = [pc EXCEPT ![p] = "idle"]
  /\ pend' = [pend EXCEPT ![p] = NoData]
  /\ UNCHANGED <<prevPassword, rbacVars, session>>
  /\ IF UniqueViolation(NoId, pend[p].email)
       THEN /\ res' = Respond("create", [email |-> pend[p].email],
                       ErrorMiddleware(PrismaError("Unique constraint failed on the fields: (email)")))
            /\ UNCHANGED <<admins, nextId>>
       ELSE /\ admins' = admins \cup
                 {[id |-> nextId, email |-> pend[p].email, name |-> pend[p].name,
                   password |-> Hash(pend[p].password, salt), isSystem |-> pend[p].isSystem]}
            /\ nextId' = nextId + 1
            /\ res' = Respond("create", [email |-> pend[p].email], Json(201, "created"))

\* ------------------------------------------------------------------ AdminService.findById
\* GET /admin/users/:id: findUnique by id; no row is answered 409.
FindById(userId) ==
  /\ UNCHANGED <<admins, nextId, pc, pend, prevPassword, rbacVars, session>>
  /\ IF FindUniqueById(userId) = {}
       THEN res' = Respond("findById", [id |-> userId],
                     ErrorMiddleware(HttpException(409, "User doesn't exist")))
       ELSE res' = [Respond("findById", [id |-> userId], Json(200, "findOne"))
                     EXCEPT !.data = CHOOSE a \in FindUniqueById(userId) : TRUE]

\* ------------------------------------------------------------------ AdminService.update
\* PUT /admin/users/:id.  The lookup by email runs only when the new email
\* differs, lower-cased, from the row's own.
Update(userId, data) ==
  /\ UNCHANGED <<nextId, pc, pend, prevPassword, rbacVars, session>>
  /\ IF FindUniqueById(userId) = {}
       THEN /\ res' = Respond("update", [email |-> data.email],
                       ErrorMiddleware(HttpException(404, "User with ID not found")))
            /\ UNCHANGED admins
       ELSE LET findUser == CHOOSE a \in FindUniqueById(userId) : TRUE IN
            IF /\ data.email # NoEmail
               /\ ToLowerCase(data.email) # ToLowerCase(findUser.email)
               /\ FindUniqueByEmail(data.email) # {}
            THEN /\ res' = Respond("update", [email |-> data.email],
                            ErrorMiddleware(HttpException(409, "Email is already in use by another user")))
                 /\ UNCHANGED admins
            ELSE IF data.email # NoEmail /\ UniqueViolation(userId, data.email)
            THEN /\ res' = Respond("update", [email |-> data.email],
                            ErrorMiddleware(PrismaError("Unique constraint failed on the fields: (email)")))
                 /\ UNCHANGED admins
            ELSE /\ admins' = PrismaUpdate(userId, data)
                 /\ res' = Respond("update", [email |-> data.email], Json(200, "updated"))

\* ------------------------------------------------------------------ AdminService.updateProfile
\* PUT /admin/profile: prisma.admin.update with no lookup before it.
UpdateProfile(adminId, name, email) ==
  /\ UNCHANGED <<nextId, pc, pend, prevPassword, rbacVars, session>>
  /\ IF FindUniqueById(adminId) = {}
       THEN /\ res' = Respond("updateProfile", [email |-> email],
                       ErrorMiddleware(PrismaError("Record to update not found")))
            /\ UNCHANGED admins
       ELSE IF UniqueViolation(adminId, email)
       THEN /\ res' = Respond("updateProfile", [email |-> email],
                       ErrorMiddleware(PrismaError("Unique constraint failed on the fields: (email)")))
            /\ UNCHANGED admins
       ELSE /\ admins' = PrismaUpdate(adminId, [email |-> email, name |-> name])
            /\ res' = Respond("updateProfile", [email |-> email],
                       Json(200, "Profile updated successfully"))

\* ------------------------------------------------------------------ AdminService.delete
\* delete without the test of result.count: a delete of nothing answers 200.
DeleteNoCountCheck(userIds) ==
  /\ UNCHANGED <<nextId, pc, pend, prevPassword, rbacVars, session>>
  /\ admins' = admins \ DeleteMany(userIds)
  /\ res' = Respond("delete", [ids |-> userIds], Json(200, "deleted"))

\* DELETE /admin/users {ids}: deleteMany, and 409 when nothing was deleted.
Delete(userIds) ==
  /\ UNCHANGED <<nextId, pc, pend, prevPassword, rbacVars, session>>
  /\ IF Cardinality(DeleteMany(userIds)) = 0
       THEN /\ res' = Respond("delete", [ids |-> userIds],
                       ErrorMiddleware(HttpException(409, "User doesn't exist")))
            /\ UNCHANGED admins
       ELSE /\ admins' = admins \ DeleteMany(userIds)
            /\ res' = Respond("delete", [ids |-> userIds], Json(200, "deleted"))

\* ------------------------------------------------------------------ AdminService.updatePassword
\* PUT /admin/password.  Every failure is a plain Error, which has no status.
\* The new password is compared with the stored hash only.
UpdatePassword(adminId, currentPassword, newPassword, salt) ==
  /\ UNCHANGED <<nextId, pc, pend, rbacVars, session>>
  /\ LET arg == [id |-> adminId, currentPassword |-> currentPassword,
                 newPassword |-> newPassword] IN
     IF FindUniqueById(adminId) = {}
       THEN /\ res' = Respond("updatePassword", arg,
                       ErrorMiddleware(PlainError("Admin not found")))
            /\ UNCHANGED <<admins, prevPassword>>
       ELSE LET admin == CHOOSE a \in FindUniqueById(adminId) : TRUE IN
            IF ~Compare(currentPassword, admin.password)
            THEN /\ res' = Respond("updatePassword", arg,
                            ErrorMiddleware(PlainError("Current password is incorrect")))
                 /\ UNCHANGED <<admins, prevPassword>>
            ELSE IF Compare(newPassword, admin.password)
            THEN /\ res' = Respond("updatePassword", arg,
                            ErrorMiddleware(PlainError("New password is already used in the past")))
                 /\ UNCHANGED <<admins, prevPassword>>
            ELSE /\ admins' = (admins \ {admin}) \cup
                                {[admin EXCEPT !.password = Hash(newPassword, salt)]}
                 /\ prevPassword' = [prevPassword EXCEPT ![adminId] = admin.password.pw]
                 /\ res' = Respond("updatePassword", arg,
                            Json(200, "Password updated successfully"))

\* ------------------------------------------------------------------ RBAC storage
\* onDelete: Cascade on RoleHasPermission.role: the rows left after the
\* roles with these ids are deleted.
CascadeRoleHasPermission(roleIds) == {r \in roleHasPermissions : r.roleId \notin roleIds}
\* ModelHasRole.role without onDelete: Cascade.
CascadeModelHasRoleMissing(roleIds) == modelHasRoles

\* onDelete: Cascade on ModelHasRole.role.
CascadeModelHasRole(roleIds) == {m \in modelHasRoles : m.roleId \notin roleIds}

\* permission.findAll(type): the permissions of the type
PermissionFindAll(type) == {q \in permissions : q.type = type}
\* role.findAll(type): the roles of the type
RoleFindAll(type) == {r \in roles : r.type = type}
\* permission.findAllRoleHasPermissions(): called with no type, every row
FindAllRoleHasPermissions == roleHasPermissions

\* ------------------------------------------------------------------ RoleService
\* POST /roles: the name lookup, then the insert.
CreateRole(data) ==
  /\ nextRoleId <= MaxRoles
  /\ UNCHANGED <<adminVars, session, pc, permissions, roleHasPermissions, modelHasRoles, gp>>
  /\ IF \E r \in roles : r.name = data.name
       THEN /\ res' = Respond("createRole", [name |-> data.name],
                       ErrorMiddleware(HttpException(409, "This role already exists")))
            /\ UNCHANGED <<roles, nextRoleId>>
       ELSE /\ roles' = roles \cup {[id |-> nextRoleId, name |-> data.name,
                                      type |-> data.type, isSystem |-> 0]}
            /\ nextRoleId' = nextRoleId + 1
            /\ res' = Respond("createRole", [name |-> data.name], Json(201, "created"))

\* DELETE /roles {ids}: the bulk delete that spares system roles; the join
\* rows of the deleted roles go with them.
DeleteRole(roleIds) ==
  /\ UNCHANGED <<adminVars, session, pc, nextRoleId, permissions, gp>>
  /\ LET deleted == {r \in roles : r.id \in roleIds /\ r.isSystem # 1} IN
     IF deleted = {}
       THEN /\ res' = Respond("deleteRole", [ids |-> roleIds],
                       ErrorMiddleware(HttpException(409, "Role doesn't exist")))
            /\ UNCHANGED <<roles, roleHasPermissions, modelHasRoles>>
       ELSE /\ roles' = roles \ deleted
            /\ roleHasPermissions' = CascadeRoleHasPermission({r.id : r \in deleted})
            /\ modelHasRoles' = CascadeModelHasRole({r.id : r \in deleted})
            /\ res' = Respond("deleteRole", [ids |-> roleIds], Json(200, "deleted"))

\* setRolePermissions(roleId, permissionIds): replace the role's rows in one
\* transaction; the foreign keys need the role and the permissions to exist.
SetRolePermissions(roleId, permissionIds) ==
  /\ UNCHANGED <<adminVars, session, pc, roles, nextRoleId, permissions, modelHasRoles, gp>>
  /\ IF roleId \notin {r.id : r \in roles}
       THEN /\ res' = Respond("setRolePermissions", [id |-> roleId],
                       ErrorMiddleware(HttpException(404, "Role doesn't exist")))
            /\ UNCHANGED roleHasPermissions
       ELSE /\ roleHasPermissions' =
                 {r \in roleHasPermissions : r.roleId # roleId} \cup
                 {[roleId |-> roleId, permissionId |-> q] : q \in permissionIds}
            /\ res' = Respond("setRolePermissions", [id |-> roleId], Json(200, "updated"))

\* bindRoleToSubject(roleId, modelId, modelType): rejected when the role is
\* missing or of the other type; the triple is unique.
BindRoleToSubject(roleId, modelId, modelType) ==
  /\ UNCHANGED <<adminVars, session, pc, roles, nextRoleId, permissions, roleHasPermissions, gp>>
  /\ LET row == [roleId |-> roleId, modelId |-> modelId, modelType |-> modelType] IN
     IF ~\E r \in roles : r.id = roleId /\ r.type = modelType
       THEN /\ res' = Respond("bindRoleToSubject", row,
                       ErrorMiddleware(HttpException(422, "Role type mismatch")))
            /\ UNCHANGED modelHasRoles
       ELSE IF row \in modelHasRoles
       THEN /\ res' = Respond("bindRoleToSubject", row,
                       ErrorMiddleware(HttpException(409, "Role already bound")))
            /\ UNCHANGED modelHasRoles
       ELSE /\ modelHasRoles' = modelHasRoles \cup {row}
            /\ res' = Respond("bindRoleToSubject", row, Json(201, "created"))

\* ------------------------------------------------------------------ PermissionController.getPermissions
\* GET /roles/permissions?type=, up to its first await: a missing type is
\* answered 422; a type outside enum UserType is refused by the Prisma
\* client when permission.findAll filters on it.
GetPermissionsStart(p, type) ==
  /\ pc[p] = "idle"
  /\ UNCHANGED <<adminVars, session, roles, nextRoleId, permissions, roleHasPermissions, modelHasRoles>>
  /\ IF type = ""
       THEN /\ res' = Respond("getPermissions", [type |-> type],
                       ErrorMiddleware(HttpException(422, "Type is Required")))
            /\ UNCHANGED <<pc, gp>>
       ELSE IF type \notin UserType
       THEN /\ res' = Respond("getPermissions", [type |-> type],
                       ErrorMiddleware(PrismaError("Invalid value for argument type. Expected UserType")))
            /\ UNCHANGED <<pc, gp>>
       ELSE /\ gp' = [gp EXCEPT ![p] = [type |-> type,
                                         permissions |-> PermissionFindAll(type),
                                         roleHasPermissions |-> {}]]
            /\ pc' = [pc EXCEPT ![p] = "gp_roleHasPermissions"]
            /\ UNCHANGED res

\* The second read: findAllRoleHasPermissions().
GetPermissionsRoleHasPermissions(p) ==
  /\ pc[p] = "gp_roleHasPermissions"
  /\ gp' = [gp EXCEPT ![p].roleHasPermissions = FindAllRoleHasPermissions]
  /\ pc' = [pc EXCEPT ![p] = "gp_roles"]
  /\ UNCHANGED <<adminVars, session, res, roles, nextRoleId, permissions, roleHasPermissions, modelHasRoles>>

\* The third read, role.findAll(type), and the answer.
GetPermissionsRoles(p) ==
  /\ pc[p] = "gp_roles"
  /\ res' = [Respond("getPermissions", [type |-> gp[p].type], Json(200, "findAll"))
               EXCEPT !.data = [permissions |-> gp[p].permissions,
                                roles |-> RoleFindAll(gp[p].type),
                                roleHasPermissions |-> gp[p].roleHasPermissions]]
  /\ gp' = [gp EXCEPT ![p] = NoGp]
  /\ pc' = [pc EXCEPT ![p] = "idle"]
  /\ UNCHANGED <<adminVars, session, roles, nextRoleId, permissions, roleHasPermissions, modelHasRoles>>

\* ------------------------------------------------------------------ Spec
\* Request bodies of POST /admin/users.
CreateBodies == [email : Emails, name : {"Ann"}, password : {"pw1"}, isSystem : {0, 1}]
\* Request bodies of PUT /admin/users/:id.
UpdateBodies == [email : Emails \cup {NoEmail}, name : {NoName}]

Next ==
  \/ \E p \in Procs, data \in CreateBodies : CreateLookup(p, data)
  \/ \E p \in Procs, salt \in {1} : CreateWrite(p, salt)
  \/ \E id \in AdminIds, data \in UpdateBodies : Update(id, data)
  \/ \E id \in AdminIds, n \in Names, e \in Emails : UpdateProfile(id, n, e)
  \/ \E ids \in SUBSET AdminIds : Delete(ids)

Spec == Init /\ [][Next]_vars

\* The requests of Spec, and lookups by id among them.
NextFind ==
  \/ Next
  \/ \E id \in AdminIds : FindById(id)

SpecFind == Init /\ [][NextFind]_vars

\* ------------------------------------------------------------------ the error boundary
\* The status an error object can carry (0: none) and the messages the
\* handlers and the Prisma client put in one ("": none).
ErrorStatuses == {0, 400, 401, 404, 409, 422, 500}
ErrorMessages ==
  {"", "This email already exists", "User doesn't exist", "User with ID not found",
   "Email is already in use by another user", "Admin not found",
   "Current password is incorrect", "New password is already used in the past",
   "Invalid credentials", "Login failed", "Not authenticated", "Type is Required",
   "Role doesn't exist", "This role already exists",
   "Unique constraint failed on the fields: (email)", "Record to update not found",
   "Invalid value for argument type. Expected UserType"}

\* next(error): the error reaches ErrorMiddleware, which answers.
Throw(error) ==
  /\ res' = Respond("error", error, ErrorMiddleware(error))
  /\ UNCHANGED <<admins, nextId, pc, pend, prevPassword, rbacVars, session>>

NextBoundary == \E error \in [status : ErrorStatuses, message : ErrorMessages] : Throw(error)

SpecBoundary == Init /\ [][NextBoundary]_vars

\* ------------------------------------------------------------------ AdminController.getUsers
\* A query parameter that is not in the URL.
Undefined == "undefined"
\* Rows of the Admin table the listing is run on.
MaxRows == 3
ListEmails == <<"a@x.io", "b@x.io", "c@x.io", "d@x.io", "e@x.io">>
ListAdmins ==
  {[id |-> i, email |-> ListEmails[i], name |-> IF i % 2 = 1 THEN "Ann" ELSE "Bob",
    password |-> Hash("pw1", 1), isSystem |-> IF i = 1 THEN 1 ELSE 0] : i \in 1..MaxRows}

\* req.query of GET /admin/users: every parameter is a string or absent.
Queries ==
  [pageNumber : {Undefined, "0", "1", "2"}, perPage : {Undefined, "1", "2"},
   sort : {Undefined, "createdAt"}, order : {Undefined, "desc"},
   q : {Undefined, "Ann"}, ignoreGlobal : {Undefined, "name,email"},
   name : {Undefined, "Bob"}]
\* The parameters the destructuring of req.query takes out; the rest go to filters.
Destructured == {"pageNumber", "perPage", "sort", "order"}
QueryKeys == {"pageNumber", "perPage", "sort", "order", "q", "ignoreGlobal", "name"}

\* Number(v) of a numeric string
Number(v) == CASE v = "0" -> 0 [] v = "1" -> 1 [] v = "2" -> 2 [] v = "3" -> 3
\* String(v).toUpperCase() of an order
ToUpperCase(v) == CASE v = "desc" -> "DESC" [] v = "asc" -> "ASC" [] OTHER -> v
\* v.split(',')
Split(v) == CASE v = "name,email" -> {"name", "email"} [] OTHER -> {v}
\* perPage = 10 when the query has none
DefaultPerPage == 10

\* pageNumber: Number(pageNumber) + 1 without the + 1.
PageNumberOptionZeroBased(query) ==
  IF query.pageNumber = Undefined THEN 0 ELSE Number(query.pageNumber)

\* pageNumber: Number(pageNumber) + 1, pageNumber = 0 when the query has none
PageNumberOption(query) ==
  (IF query.pageNumber = Undefined THEN 0 ELSE Number(query.pageNumber)) + 1

\* The options getUsers builds for findAllPaginate.
GetUsersOptions(query) ==
  [pageNumber |-> PageNumberOption(query),
   perPage |-> IF query.perPage = Undefined THEN DefaultPerPage ELSE Number(query.perPage),
   filters |-> [k \in {x \in QueryKeys \ Destructured : query[x] # Undefined} |-> query[k]],
   q |-> query.q,
   ignoreGlobal |-> IF query.ignoreGlobal = Undefined THEN {} ELSE Split(query.ignoreGlobal),
   sort |-> IF query.sort = Undefined THEN "createdAt" ELSE query.sort,
   order |-> IF query.order = Undefined THEN "ASC" ELSE ToUpperCase(query.order)]

\* ------------------------------------------------------------------ BaseService.findAllPaginate
\* Columns of Admin a filter can name, and those the free-text search reads.
Columns == {"email", "name"}
Searchable == {"email", "name"}
\* The case-insensitive substring match, on the values above.
Contains(value, term) == value = term

\* The rows the filters and the search let through; a filter on a name that
\* is no column is ignored.
Matching(options) ==
  {a \in admins :
     /\ \A k \in DOMAIN options.filters : k \in Columns => a[k] = options.filters[k]
     /\ options.q # Undefined =>
          \E f \in Searchable \ options.ignoreGlobal : Contains(a[f], options.q)}

\* Rows in creation order (ids grow with createdAt), ties by primary key.
RECURSIVE Ascending(_)
Ascending(rows) ==
  IF rows = {} THEN <<>>
  ELSE LET first == CHOOSE a \in rows : \A b \in rows : a.id <= b.id
       IN <<first>> \o Ascending(rows \ {first})
Reverse(seq) == [i \in 1..Len(seq) |-> seq[Len(seq) + 1 - i]]
Ordered(rows, order) == IF order = "DESC" THEN Reverse(Ascending(rows)) ELSE Ascending(rows)
Min(a, b) == IF a <= b THEN a ELSE b

\* offset = (pageNumber - 1) * perPage; total counts the matching rows.
FindAllPaginate(options) ==
  LET sorted == Ordered(Matching(options), options.order)
      offset == (options.pageNumber - 1) * options.perPage
  IN [rows |-> SubSeq(sorted, offset + 1, Min(offset + options.perPage, Len(sorted))),
      total |-> Len(sorted),
      page |-> options.pageNumber,
      perPage |-> options.perPage]

\* GET /admin/users
GetUsers(query) ==
  /\ res' = [Respond("getUsers", [query |-> query, options |-> GetUsersOptions(query)],
                      Json(200, "findAll"))
               EXCEPT !.data = FindAllPaginate(GetUsersOptions(query))]
  /\ UNCHANGED <<admins, nextId, pc, pend, prevPassword, rbacVars, session>>

\* Listings of a table that does not change under them.
InitList ==
  /\ admins \in SUBSET ListAdmins
  /\ nextId = MaxRows + 1
  /\ pc = [p \in Procs |-> "idle"]
  /\ pend = [p \in Procs |-> NoData]
  /\ res = NoRes
  /\ prevPassword = [id \in AdminIds |-> ""]
  /\ session = [s \in Sessions |-> NoId]
  /\ InitRbac

NextList == \E query \in Queries : GetUsers(query)

SpecList == InitList /\ [][NextList]_vars

\* ------------------------------------------------------------------ sessions
\* The isAuthenticated middleware without its test: every request goes on.
IsAuthenticatedAlways(s) == TRUE

\* isAuthenticated: req.isAuthenticated(), the session has a signed-in user
IsAuthenticated(s) == session[s] # NoId

\* The admin-local strategy: the Admin with the email whose hash the
\* password matches.
Authenticate(email, password) ==
  {a \in FindUniqueByEmail(email) : Compare(password, a.password)}

\* POST /admin/login.  ok: whether req.login could store the session.
Login(s, email, password, ok) ==
  /\ UNCHANGED <<admins, nextId, pc, pend, prevPassword, rbacVars>>
  /\ LET arg == [session |-> s, email |-> email, password |-> password] IN
     IF Authenticate(email, password) = {}
       THEN /\ res' = Respond("login", arg,
                       ErrorMiddleware(HttpException(401, "Invalid credentials")))
            /\ UNCHANGED session
       ELSE IF ~ok
       THEN /\ res' = Respond("login", arg, ErrorMiddleware(HttpException(500, "Login failed")))
            /\ \E left \in {session[s], NoId} : session' = [session EXCEPT ![s] = left]
       ELSE /\ res' = Respond("login", arg, Json(200, "Logged in successfully"))
            /\ session' = [session EXCEPT
                             ![s] = (CHOOSE a \in Authenticate(email, password) : TRUE).id]

\* POST /admin/logout.  ok: whether req.logout could clear the session.
Logout(s, ok) ==
  /\ UNCHANGED <<admins, nextId, pc, pend, prevPassword, rbacVars>>
  /\ IF ~ok
       THEN /\ res' = Respond("logout", [session |-> s], Json(500, "Error during logout"))
            /\ \E left \in {session[s], NoId} : session' = [session EXCEPT ![s] = left]
       ELSE /\ res' = Respond("logout", [session |-> s], Json(200, "Logged out successfully"))
            /\ session' = [session EXCEPT ![s] = NoId]

\* GET /admin/profile behind isAuthenticated: the middleware answers 401
\* itself, or calls next() and getProfile runs (handler: whether it ran).
GetProfile(s) ==
  /\ UNCHANGED <<admins, nextId, pc, pend, prevPassword, rbacVars, session>>
  /\ IF ~IsAuthenticated(s)
       THEN res' = Respond("getProfile", [session |-> s, handler |-> FALSE],
                     Json(401, "Not authenticated"))
       ELSE IF session[s] = NoId
       THEN res' = Respond("getProfile", [session |-> s, handler |-> TRUE],
                     ErrorMiddleware(HttpException(401, "Not authenticated")))
       ELSE res' = [Respond("getProfile", [session |-> s, handler |-> TRUE],
                            Json(200, "User Profile"))
                     EXCEPT !.data = session[s]]

\* Two administrators to sign in as.
InitSession ==
  /\ admins = {SeedAdmin, [id |-> 2, email |-> "b@x.io", name |-> "Bob",
                           password |-> Hash("pw2", 2), isSystem |-> 0]}
  /\ nextId = 3
  /\ pc = [p \in Procs |-> "idle"]
  /\ pend = [p \in Procs |-> NoData]
  /\ res = NoRes
  /\ prevPassword = [id \in AdminIds |-> ""]
  /\ session = [s \in Sessions |-> NoId]
  /\ InitRbac

NextSession ==
  \/ \E s \in Sessions, e \in Emails, pw \in Passwords, ok \in BOOLEAN : Login(s, e, pw, ok)
  \/ \E s \in Sessions, ok \in BOOLEAN : Logout(s, ok)
  \/ \E s \in Sessions : GetProfile(s)

SpecSession == InitSession /\ [][NextSession]_vars

\* Successive password changes of the signed-in administrators.
NextPassword ==
  \E id \in AdminIds, cur \in Passwords, new \in Passwords, salt \in Salts :
    UpdatePassword(id, cur, new, salt)

SpecPassword == Init /\ [][NextPassword]_vars

\* Request bodies of POST /roles.
RoleBodies == [name : RoleNames, type : UserType]
\* Values of the type query parameter: absent, the two of the enum, another.
QueryTypes == {"", "admin", "user", "guest"}

\* One listing in flight (slot 1), interleaved with the other requests.
NextRbac ==
  \/ \E data \in RoleBodies : CreateRole(data)
  \/ \E ids \in SUBSET RoleIds : DeleteRole(ids)
  \/ \E id \in RoleIds, qs \in SUBSET PermissionIds : SetRolePermissions(id, qs)
  \/ \E id \in RoleIds, m \in ModelIds, t \in UserType : BindRoleToSubject(id, m, t)
  \/ \E type \in QueryTypes : GetPermissionsStart(1, type)
  \/ GetPermissionsRoleHasPermissions(1)
  \/ GetPermissionsRoles(1)

SpecRbac == Init /\ [][NextRbac]_vars

TypeOK ==
  /\ nextId \in 1..(MaxAdmins + 1)
  /\ \A a \in admins : a.id \in AdminIds /\ a.email \in Emails /\ a.isSystem \in {0, 1}
  /\ pc \in [Procs -> {"idle", "create_write", "gp_roleHasPermissions", "gp_roles"}]
  /\ nextRoleId \in 1..(MaxRoles + 1)

\* ================================================================== properties
\* C1: AdminService.create called with an email an existing Admin row has
\* is answered 409 and leaves the Admin table as it was, whatever creates,
\* updates and deletes came before.
C1_DuplicateCreateConflicts ==
  [][\A p \in Procs, data \in CreateBodies :
       ((\E a \in admins : a.email = data.email) /\ CreateLookup(p, data))
         => /\ res'.op = "create" /\ res'.arg.email = data.email
            /\ res'.status = 409
            /\ admins' = admins
            /\ pc'[p] = "idle"]_vars

\* A create was refused with 409 for an email a row holds, after other rows
\* had been created.
C1_Witness ==
  /\ res.op = "create" /\ res.status = 409
  /\ \E a \in admins : a.email = res.arg.email
  /\ Cardinality(admins) >= 2

\* C2: two creates of one unused email whose lookups both ran before either
\* write leave at most one row with the email, and the loser ends in a
\* conflict, never in an internal error: a create is answered 201 or 409.
C2_RaceLoserGetsConflict ==
  /\ \A a, b \in admins : SameEmail(a.email, b.email) => a.id = b.id
  /\ res.op = "create" => res.status \in {201, 409}

\* C3: delete(ids) removes exactly the rows whose id is in ids and whose
\* isSystem is not 1 and leaves the others as they were; a row with
\* isSystem = 1 survives every delete.
C3_DeleteRemovesExactlyDeletable ==
  [][(res'.op = "delete" /\ Delete(res'.arg.ids))
       => /\ admins' = {a \in admins : ~(a.id \in res'.arg.ids /\ a.isSystem # 1)}
          /\ \A a \in admins : a.isSystem = 1 => a \in admins']_vars

\* A delete that named a system row and a deletable row succeeded, and the
\* system row is still there.
C3_Witness ==
  /\ res.op = "delete" /\ res.status = 200
  /\ \E a \in admins : a.isSystem = 1 /\ a.id \in res.arg.ids
  /\ \E i \in res.arg.ids : i < nextId /\ i \notin {a.id : a \in admins}

\* C4: a delete whose ids name only system rows or no row at all deletes
\* nothing and is answered with an error, never with a success.
C4_NothingDeletableIsAnError ==
  [][(/\ res'.op = "delete"
      /\ \A a \in admins : a.id \in res'.arg.ids => a.isSystem = 1
      /\ Delete(res'.arg.ids))
       => /\ admins' = admins
          /\ res'.status >= 400]_vars

\* A delete naming only a system row was answered 409.
C4_Witness ==
  /\ res.op = "delete" /\ res.status = 409
  /\ res.arg.ids # {}
  /\ \A i \in res.arg.ids : \E a \in admins : a.id = i /\ a.isSystem = 1

\* C5: a delete that names protected rows along with deletable ones reports
\* the mismatch: its answer is not the answer of a delete that removed every
\* row it named.
C5_MixedDeleteReportsMismatch ==
  (res.op = "delete" /\ \E a \in admins : a.id \in res.arg.ids /\ a.isSystem = 1)
    => [status |-> res.status, message |-> res.message] # Json(200, "deleted")

\* C6: updatePassword with the correct current password: a new password equal
\* to the current or to the previous one is answered 409 and the hash stays;
\* any other new password succeeds and the hash changes.
C6_PasswordReuseConflicts ==
  [][\A id \in AdminIds, cur \in Passwords, new \in Passwords, salt \in Salts :
       \A a \in FindUniqueById(id) :
         (UpdatePassword(id, cur, new, salt) /\ Compare(cur, a.password))
           => IF new = cur \/ new = prevPassword[id]
                THEN res'.status = 409 /\ admins' = admins
                ELSE res'.status = 200 /\ a \notin admins']_vars

\* C7: create, update and updateProfile look the email up before they write
\* it: when another Admin holds the email the operation is answered 409 and
\* no row changes.
C7_EmailWritesLookUpFirst ==
  [][/\ \A p \in Procs, data \in CreateBodies :
          (CreateLookup(p, data) /\ \E a \in admins : a.email = data.email)
            => res'.status = 409 /\ admins' = admins
     /\ \A id \in AdminIds, data \in UpdateBodies :
          (/\ Update(id, data)
           /\ FindUniqueById(id) # {}
           /\ \E a \in admins : a.id # id /\ a.email = data.email)
            => res'.status = 409 /\ admins' = admins
     /\ \A id \in AdminIds, n \in Names, e \in Emails :
          (/\ UpdateProfile(id, n, e)
           /\ FindUniqueById(id) # {}
           /\ \E a \in admins : a.id # id /\ a.email = e)
            => res'.status = 409 /\ admins' = admins]_vars

\* C8: every RoleHasPermission row and every ModelHasRole row references a
\* Role that exists, in every reachable state.
C8_NoDanglingJoinRows ==
  /\ \A r \in roleHasPermissions : \E x \in roles : x.id = r.roleId
  /\ \A m \in modelHasRoles : \E x \in roles : x.id = m.roleId

\* A role that had RoleHasPermission rows (the listing in flight read them)
\* has been deleted.
C8_Witness ==
  /\ res.op = "deleteRole" /\ res.status = 200
  /\ \E p \in Procs : \E r \in gp[p].roleHasPermissions :
        r.roleId \in res.arg.ids /\ r.roleId \notin {x.id : x \in roles}

\* C9: the permission-matrix listing answers with one consistent snapshot:
\* every roleHasPermissions row it returns belongs to a role it returns.
C9_ListingIsOneSnapshot ==
  (res.op = "getPermissions" /\ res.status = 200)
    => \A r \in res.data.roleHasPermissions :
         \E x \in res.data.roles : x.id = r.roleId

\* C10: the listing is answered 422, with no data, whenever type is missing
\* or is neither admin nor user.
C10_BadTypeIsValidationError ==
  (res.op = "getPermissions" /\ res.arg.type \notin UserType)
    => res.status = 422 /\ res.data = <<>>

\* C11: a lookup, an update or a delete by an id no row has is answered 404,
\* whichever of findById, update and delete found the row missing.
C11_AbsentIdIs404 ==
  [][/\ (res'.op = "findById" /\ FindUniqueById(res'.arg.id) = {} /\ FindById(res'.arg.id))
          => res'.status = 404
     /\ \A id \in AdminIds, data \in UpdateBodies :
          (FindUniqueById(id) = {} /\ res'.op = "update" /\ Update(id, data))
            => res'.status = 404
     /\ (/\ res'.op = "delete" /\ res'.arg.ids # {}
         /\ \A i \in res'.arg.ids : FindUniqueById(i) = {}
         /\ Delete(res'.arg.ids))
          => res'.status = 404]_vars

\* C12: an error that reaches the boundary with no status is answered 500
\* with a user-safe message: the text of the error itself is not in the
\* response.
C12_InternalMessageNotSurfaced ==
  (res.op = "error" /\ res.arg.status = 0)
    => /\ res.status = 500
       /\ res.arg.message # "" => res.message # res.arg.message

\* The rows of a page, as a set.
RowsOf(data) == {data.rows[i] : i \in 1..Len(data.rows)}

\* C13: for a 0-based pageNumber p (0 when omitted) and perPage n > 0 the
\* listing uses page p + 1 and offset p * n, returns at most n rows and a
\* total no smaller than their number, and shares no row with the page
\* p + 1 of the same table.
C13_PageMath ==
  res.op = "getUsers" =>
    LET query == res.arg.query
        options == res.arg.options
        p == IF query.pageNumber = Undefined THEN 0 ELSE Number(query.pageNumber)
        n == options.perPage
        all == Ordered(Matching(options), options.order)
        after == FindAllPaginate(GetUsersOptions(
                   [query EXCEPT !.pageNumber = CHOOSE v \in {"1", "2", "3"} : Number(v) = p + 1]))
    IN /\ n > 0
       /\ options.pageNumber = p + 1
       /\ res.data.page = p + 1
       /\ res.data.rows = SubSeq(all, p * n + 1, Min(p * n + n, Len(all)))
       /\ Len(res.data.rows) <= n
       /\ res.data.total >= Len(res.data.rows)
       /\ RowsOf(res.data) \cap RowsOf(after) = {}

\* The second page of one row each was listed, of a table with a third.
C13_Witness ==
  /\ res.op = "getUsers"
  /\ res.arg.query.pageNumber = "1" /\ res.arg.query.perPage = "1"
  /\ Len(res.data.rows) = 1
  /\ res.data.total >= 3

\* C15: the filters getUsers hands to findAllPaginate hold the caller's field
\* filters only: none of pageNumber, perPage, sort, order, q, ignoreGlobal.
C15_FiltersHoldNoReservedParameter ==
  res.op = "getUsers" =>
    DOMAIN res.arg.options.filters \cap
      {"pageNumber", "perPage", "sort", "order", "q", "ignoreGlobal"} = {}

\* C14, in every state: a protected request is answered 200 by its handler
\* when the session is signed in, and otherwise 401 by the middleware, the
\* handler not run; after a successful logout the session is signed out.
C14_SessionStates ==
  /\ res.op = "getProfile" =>
       IF session[res.arg.session] # NoId
         THEN res.arg.handler /\ res.status = 200
         ELSE ~res.arg.handler /\ res.status = 401
  /\ (res.op = "logout" /\ res.status = 200) => session[res.arg.session] = NoId

\* C14, in every step: a session comes to be signed in as an admin only by a
\* login answered 200 whose email and password are that admin's; a login
\* answered 401 leaves every session as it was.
C14_SessionSteps ==
  /\ \A s \in Sessions :
       (session'[s] # NoId /\ session'[s] # session[s])
         => /\ res'.op = "login" /\ res'.status = 200 /\ res'.arg.session = s
            /\ \E a \in admins :
                 /\ a.id = session'[s]
                 /\ SameEmail(a.email, res'.arg.email)
                 /\ Compare(res'.arg.password, a.password)
  /\ (res'.op = "login" /\ res'.status = 401) => session' = session

\* C14: a protected handler runs only for a signed-in session, a session is
\* signed in only by an accepted login, and once logged out it is answered
\* 401 until the next accepted login.
C14_SessionOrdering == []C14_SessionStates /\ [][C14_SessionSteps]_vars

\* A signed-out session asked for the profile and was answered 401 by the
\* middleware, the handler not run, while the other session is signed in.
C14_Witness ==
  /\ res.op = "getProfile" /\ res.status = 401 /\ ~res.arg.handler
  /\ session[res.arg.session] = NoId
  /\ \E s \in Sessions : session[s] # NoId

====
